---- MODULE Spec2Model ----
(***************************************************************************)
(* Model of catalina's wgpu helper layer (src/catalina/src/util.rs):       *)
(*   - RenderContext: the device pool (find-or-create a DeviceHandle),     *)
(*     render-surface creation, resize and present-mode change;            *)
(*   - block_on_wgpu: the single-future blocking executor.                 *)
(* The graphics backend (wgpu) is the environment: adapter enumeration,    *)
(* the logical-device request, the capability query, surface configure     *)
(* and the blocking device wait are outcomes chosen by the backend.        *)
(***************************************************************************)
EXTENDS Integers, Sequences, FiniteSets

\* ----------------------------------------------------------------- bounds

\* Number of distinct presentation targets (windows) surfaces are made for.
NumSurfaces == 2
\* Widths and heights range over 0..MaxDim (zero included).
MaxDim == 2
\* Longest capability (format) list the backend reports.
MaxCaps == 3
\* Most device-progress signals a GPU future needs before it is ready.
MaxSignals == 3

\* The loop of block_on_wgpu is unbounded; polls, waits and pendings count its
\* steps exactly up to this many and stay there while the loop goes on.
MaxCount == 9

\* ------------------------------------------------------------ value domains

\* Option::<&Surface>::None, the argument of device(None).
NoSurface == 0
\* Option::<usize>::None, the result of a failed device lookup / creation.
NoneIdx == -1

Surfaces == 1 .. NumSurfaces
Dims == 0 .. MaxDim
PresentModes == {"Fifo", "Mailbox", "Immediate"}
TextureFormats == {"Rgba8Unorm", "Bgra8Unorm", "Bgra8UnormSrgb"}
NoFormat == "NoFormat"

\* An adapter is known to this layer only through the surfaces it supports.
Adapters == SUBSET Surfaces

RECURSIVE SeqsUpTo(_, _)
SeqsUpTo(S, n) ==
    IF n = 0 THEN {<<>>}
    ELSE LET shorter == SeqsUpTo(S, n - 1)
         IN shorter \cup {Append(q, x) : q \in {p \in shorter : Len(p) = n - 1}, x \in S}

\* The format lists a capability query may report, in backend order.
CapLists == SeqsUpTo(TextureFormats, MaxCaps)

VARIABLES
    devices,    \* RenderContext.devices : Vec<DeviceHandle>
    rs,         \* the RenderSurface the caller holds (NoRenderSurface before any)
    applied,    \* backend side: what Surface::configure last applied to rs
    aborted,    \* the process panicked in a backend call
    last,       \* record of the last RenderContext call: arguments, backend answers, result
    hist,       \* history of the calls that may create devices
    wasm32,     \* cfg!(target_arch = "wasm32") of the build
    pc,         \* block_on_wgpu: position of the calling thread
    fut,        \* block_on_wgpu: the future being driven
    gpuBusy,    \* the device has submitted work that has not completed
    event,      \* the non-GPU event (timer, channel, I/O) has occurred
    polls,      \* number of polls of the future so far
    waits,      \* number of device.poll(Maintain::Wait) calls returned so far
    pendings,   \* number of polls that reported Pending
    ret         \* value block_on_wgpu returned

poolVars == <<devices, rs, applied, aborted, last, hist>>
execVars == <<wasm32, pc, fut, gpuBusy, event, polls, waits, pendings, ret>>
vars == <<devices, rs, applied, aborted, last, hist,
          wasm32, pc, fut, gpuBusy, event, polls, waits, pendings, ret>>

\* ------------------------------------------------------------- data model

\* struct DeviceHandle { adapter, device, queue }; device and queue carry the
\* identity of the creation (its ordinal), so that two handles are never equal.
DeviceHandle(adapter, ordinal) ==
    [adapter |-> adapter, device |-> ordinal, queue |-> ordinal]

\* Mutant of SurfaceConfiguration: width and height are swapped.
SurfaceConfiguration_Swapped(format, width, height, present_mode) ==
    [usage |-> "RENDER_ATTACHMENT",
     format |-> format,
     width |-> height,
     height |-> width,
     present_mode |-> present_mode,
     desired_maximum_frame_latency |-> 2,
     alpha_mode |-> "Auto",
     view_formats |-> <<>>]

\* wgpu::SurfaceConfiguration as built by create_render_surface.
SurfaceConfiguration(format, width, height, present_mode) ==
    [usage |-> "RENDER_ATTACHMENT",
     format |-> format,
     width |-> width,
     height |-> height,
     present_mode |-> present_mode,
     desired_maximum_frame_latency |-> 2,
     alpha_mode |-> "Auto",
     view_formats |-> <<>>]

\* struct RenderSurface { surface, config, dev_id, format }
RenderSurface(surface, config, dev_id, format) ==
    [surface |-> surface, config |-> config, dev_id |-> dev_id, format |-> format]

NoConfig == SurfaceConfiguration(NoFormat, 0, 0, "Fifo")
NoRenderSurface == RenderSurface(NoSurface, NoConfig, NoneIdx, NoFormat)
NotApplied == [config |-> NoConfig, device |-> NoneIdx]

\* ------------------------------------------------ RenderContext: devices

\* Adapter::is_surface_supported
is_surface_supported(adapter, s) == s \in adapter

\* Mutant of FindSupported: the last supporting handle instead of the first.
RECURSIVE FindSupported_Last(_, _, _)
FindSupported_Last(devs, s, i) ==
    IF i >= Len(devs) THEN NoneIdx
    ELSE LET later == FindSupported_Last(devs, s, i + 1)
         IN IF later # NoneIdx THEN later
            ELSE IF is_surface_supported(devs[i + 1].adapter, s) THEN i
            ELSE NoneIdx

\* devices.iter().enumerate().find(|(_, d)| d.adapter.is_surface_supported(s))
\*        .map(|(i, _)| i), scanning from index i (indices are 0-based).
RECURSIVE FindSupported(_, _, _)
FindSupported(devs, s, i) ==
    IF i >= Len(devs) THEN NoneIdx
    ELSE IF is_surface_supported(devs[i + 1].adapter, s) THEN i
    ELSE FindSupported(devs, s, i + 1)

\* Mutant of Compatible: the scan starts at the second handle.
Compatible_SkipFirst(devs, compatible_surface) ==
    IF compatible_surface # NoSurface
    THEN FindSupported(devs, compatible_surface, 1)
    ELSE IF Len(devs) # 0 THEN 0 ELSE NoneIdx

\* Mutant of Compatible: without a surface the newest handle is chosen.
Compatible_NoneLast(devs, compatible_surface) ==
    IF compatible_surface # NoSurface
    THEN FindSupported(devs, compatible_surface, 0)
    ELSE IF Len(devs) # 0 THEN Len(devs) - 1 ELSE NoneIdx

\* The `compatible` local of RenderContext::device.
Compatible(devs, compatible_surface) ==
    IF compatible_surface # NoSurface
    THEN FindSupported(devs, compatible_surface, 0)
    ELSE IF Len(devs) # 0 THEN 0 ELSE NoneIdx

\* Backend answers to new_device: initialize_adapter_from_env_or_default
\* yields no adapter, or an adapter that supports the compatible surface when
\* one is given; request_device succeeds or fails.
NoAnswer == [asked |-> FALSE, found |-> FALSE, adapter |-> {}, request_ok |-> FALSE]

AdapterAnswers(compatible_surface) ==
    {[asked |-> TRUE, found |-> FALSE, adapter |-> {}, request_ok |-> FALSE]}
    \cup {[asked |-> TRUE, found |-> TRUE, adapter |-> a, request_ok |-> ok] :
            a \in {x \in Adapters : compatible_surface = NoSurface
                                     \/ is_surface_supported(x, compatible_surface)},
            ok \in BOOLEAN}

\* The backend is consulted only when device() falls through to new_device.
BackendAnswers(devs, compatible_surface) ==
    IF Compatible(devs, compatible_surface) = NoneIdx
    THEN AdapterAnswers(compatible_surface)
    ELSE {NoAnswer}

\* Mutant of new_device: a failed device request still pushes a handle.
new_device_PushOnFailure(devs, env) ==
    IF ~env.found THEN [devices |-> devs, id |-> NoneIdx]
    ELSE LET pushed == Append(devs, DeviceHandle(env.adapter, Len(devs)))
         IN [devices |-> pushed,
             id |-> IF env.request_ok THEN Len(pushed) - 1 ELSE NoneIdx]

\* Mutant of new_device: a full pool (one handle) recycles its last slot.
new_device_Recycle(devs, env) ==
    IF ~env.found THEN [devices |-> devs, id |-> NoneIdx]
    ELSE IF ~env.request_ok THEN [devices |-> devs, id |-> NoneIdx]
    ELSE IF Len(devs) = 0
    THEN [devices |-> <<DeviceHandle(env.adapter, 0)>>, id |-> 0]
    ELSE [devices |-> [devs EXCEPT ![Len(devs)] = DeviceHandle(env.adapter, Len(devs))],
          id |-> Len(devs) - 1]

\* Mutant of new_device: the index is taken before the push.
new_device_IndexBeforePush(devs, env) ==
    IF ~env.found THEN [devices |-> devs, id |-> NoneIdx]
    ELSE IF ~env.request_ok THEN [devices |-> devs, id |-> NoneIdx]
    ELSE LET pushed == Append(devs, DeviceHandle(env.adapter, Len(devs)))
         IN [devices |-> pushed, id |-> Len(devs) - 1]

\* RenderContext::new_device: `?` on the adapter, `.ok()?` on the device
\* request, then push and return len - 1.
new_device(devs, env) ==
    IF ~env.found THEN [devices |-> devs, id |-> NoneIdx]
    ELSE IF ~env.request_ok THEN [devices |-> devs, id |-> NoneIdx]
    ELSE LET pushed == Append(devs, DeviceHandle(env.adapter, Len(devs)))
         IN [devices |-> pushed, id |-> Len(pushed) - 1]

\* RenderContext::device
device(devs, compatible_surface, env) ==
    LET compatible == Compatible(devs, compatible_surface)
    IN IF compatible = NoneIdx
       THEN new_device(devs, env)
       ELSE [devices |-> devs, id |-> compatible]

\* ------------------------------------------------ RenderContext: surfaces

IsAllowed(format) == format = "Rgba8Unorm" \/ format = "Bgra8Unorm"

\* Mutant of SelectFormat: Rgba8Unorm wins whenever it is listed.
SelectFormat_PreferRgba(formats) ==
    IF \E i \in 1 .. Len(formats) : formats[i] = "Rgba8Unorm" THEN "Rgba8Unorm"
    ELSE IF \E i \in 1 .. Len(formats) : formats[i] = "Bgra8Unorm" THEN "Bgra8Unorm"
    ELSE NoFormat

\* Mutant of SelectFormat: the first listed format, allowed or not.
SelectFormat_First(formats) ==
    IF formats = <<>> THEN NoFormat ELSE Head(formats)

\* capabilities.formats.into_iter().find(|it| matches!(it, Rgba8Unorm | Bgra8Unorm)),
\* NoFormat standing for the None that becomes UnsupportedSurfaceFormat.
RECURSIVE SelectFormat(_)
SelectFormat(formats) ==
    IF formats = <<>> THEN NoFormat
    ELSE IF IsAllowed(Head(formats)) THEN Head(formats)
    ELSE SelectFormat(Tail(formats))

\* Surface::configure is a backend call: a configuration the backend rejects
\* (a zero area, a present mode the surface does not offer) is a fatal error.
\* Fifo is the one mode every surface offers.
BackendMayReject(config) ==
    config.width = 0 \/ config.height = 0 \/ config.present_mode # "Fifo"

RejectChoices(config) == IF BackendMayReject(config) THEN BOOLEAN ELSE {FALSE}

\* RenderContext::configure_surface: the device is devices[surface.dev_id].device.
configure_surface(devs, surface) ==
    [config |-> surface.config, device |-> devs[surface.dev_id + 1].device]

\* Mutant of create_render_surface: a format failure rolls the pool back.
create_render_surface_Rollback(devs, surface, width, height, present_mode, env, caps) ==
    LET d == device(devs, surface, env)
        format == SelectFormat(caps)
        config == SurfaceConfiguration(format, width, height, present_mode)
    IN IF d.id = NoneIdx
       THEN [devices |-> d.devices, dev |-> d.id, result |-> "NoCompatibleDevice",
             surface |-> NoRenderSurface]
       ELSE IF format = NoFormat
       THEN [devices |-> devs, dev |-> d.id, result |-> "UnsupportedSurfaceFormat",
             surface |-> NoRenderSurface]
       ELSE [devices |-> d.devices, dev |-> d.id, result |-> "Ok",
             surface |-> RenderSurface(surface, config, d.id, format)]

\* Mutant of create_render_surface: a missing format is unwrapped, not returned.
create_render_surface_Unwrap(devs, surface, width, height, present_mode, env, caps) ==
    LET d == device(devs, surface, env)
        format == SelectFormat(caps)
        config == SurfaceConfiguration(format, width, height, present_mode)
    IN IF d.id = NoneIdx
       THEN [devices |-> d.devices, dev |-> d.id, result |-> "NoCompatibleDevice",
             surface |-> NoRenderSurface]
       ELSE IF format = NoFormat
       THEN [devices |-> d.devices, dev |-> d.id, result |-> "panic",
             surface |-> NoRenderSurface]
       ELSE [devices |-> d.devices, dev |-> d.id, result |-> "Ok",
             surface |-> RenderSurface(surface, config, d.id, format)]

\* RenderContext::create_render_surface, up to the configure call: the device
\* lookup, the format selection and the assembled RenderSurface.
create_render_surface(devs, surface, width, height, present_mode, env, caps) ==
    LET d == device(devs, surface, env)
        format == SelectFormat(caps)
        config == SurfaceConfiguration(format, width, height, present_mode)
    IN IF d.id = NoneIdx
       THEN [devices |-> d.devices, dev |-> d.id, result |-> "NoCompatibleDevice",
             surface |-> NoRenderSurface]
       ELSE IF format = NoFormat
       THEN [devices |-> d.devices, dev |-> d.id, result |-> "UnsupportedSurfaceFormat",
             surface |-> NoRenderSurface]
       ELSE [devices |-> d.devices, dev |-> d.id, result |-> "Ok",
             surface |-> RenderSurface(surface, config, d.id, format)]

\* Mutant of resize_surface: width and height are swapped.
resize_surface_Swapped(surface, width, height) ==
    [surface EXCEPT !.config.width = height, !.config.height = width]

\* RenderContext::resize_surface, the field mutation.
resize_surface(surface, width, height) ==
    [surface EXCEPT !.config.width = width, !.config.height = height]

\* Mutant of set_present_mode: the configuration is rebuilt with a fixed format.
set_present_mode_Rebuild(surface, present_mode) ==
    [surface EXCEPT !.config = SurfaceConfiguration("Bgra8Unorm", surface.config.width,
                                                    surface.config.height, present_mode)]

\* Mutant of set_present_mode: only the mode every surface offers is taken.
set_present_mode_Checked(surface, present_mode) ==
    IF present_mode = "Fifo"
    THEN [surface EXCEPT !.config.present_mode = present_mode]
    ELSE surface

\* RenderContext::set_present_mode, the field mutation.
set_present_mode(surface, present_mode) ==
    [surface EXCEPT !.config.present_mode = present_mode]

\* ------------------------------------------------------- call bookkeeping

LastCall(op, surface, width, height, present_mode, env, caps, rejected, before, rsBefore, dev, result) ==
    [op |-> op, surface |-> surface, width |-> width, height |-> height,
     present_mode |-> present_mode, env |-> env, caps |-> caps,
     rejected |-> rejected, before |-> before, rsBefore |-> rsBefore,
     dev |-> dev, result |-> result]

NoCall == LastCall("none", NoSurface, 0, 0, "Fifo", NoAnswer, <<>>, FALSE,
                   <<>>, NoRenderSurface, NoneIdx, "none")

NoHist == [passed |-> {}, started |-> FALSE, firstDev |-> NoneIdx]

\* ------------------------------------------------------------ pool actions

PoolInit ==
    /\ devices = <<>>
    /\ rs = NoRenderSurface
    /\ applied = NotApplied
    /\ aborted = FALSE
    /\ last = NoCall
    /\ hist = NoHist

\* A caller awaits RenderContext::device(compatible_surface) on its own.
Device(compatible_surface) ==
    /\ ~aborted
    /\ \E env \in BackendAnswers(devices, compatible_surface) :
         \E d \in {device(devices, compatible_surface, env)} :
            /\ devices' = d.devices
            /\ last' = LastCall("device", compatible_surface, 0, 0, "Fifo", env, <<>>,
                                FALSE, devices, rs, d.id,
                                IF d.id = NoneIdx THEN "None" ELSE "Some")
            /\ hist' = [hist EXCEPT !.passed = @ \cup {compatible_surface}]
    /\ UNCHANGED <<rs, applied, aborted>>
    /\ UNCHANGED execVars

\* A caller awaits RenderContext::create_render_surface(surface, ...); caps is
\* the format list surface.get_capabilities reports for the resolved adapter.
\* The RenderSurface it returns replaces the one the caller held.
CreateRenderSurface(surface, width, height, present_mode, caps) ==
    /\ ~aborted
    /\ \E env \in BackendAnswers(devices, surface) :
         \E c \in {create_render_surface(devices, surface, width, height,
                                          present_mode, env, caps)} :
            \E rejected \in (IF c.result = "Ok" THEN RejectChoices(c.surface.config)
                             ELSE {FALSE}) :
              /\ devices' = c.devices
              /\ rs' = IF c.result = "Ok" /\ ~rejected THEN c.surface ELSE rs
              /\ applied' = IF c.result = "Ok" /\ ~rejected
                            THEN configure_surface(c.devices, c.surface)
                            ELSE applied
              /\ aborted' = rejected
              /\ last' = LastCall("create_render_surface", surface, width, height,
                                  present_mode, env, caps, rejected, devices, rs, c.dev,
                                  IF rejected THEN "panic" ELSE c.result)
              /\ hist' = [passed |-> hist.passed \cup {surface},
                          started |-> TRUE,
                          firstDev |-> IF hist.started THEN hist.firstDev
                                       ELSE IF c.result = "Ok" /\ ~rejected
                                       THEN c.surface.dev_id ELSE NoneIdx]
    /\ UNCHANGED execVars

\* A caller awaits RenderContext::create_surface(window, ...): `created` is
\* whether instance.create_surface(window) succeeded; its error is returned
\* by `?` before create_render_surface is reached.
CreateSurface(window, created, width, height, present_mode, caps) ==
    IF created
    THEN CreateRenderSurface(window, width, height, present_mode, caps)
    ELSE /\ ~aborted
         /\ last' = LastCall("create_surface", window, width, height, present_mode,
                             NoAnswer, <<>>, FALSE, devices, rs, NoneIdx,
                             "CreateSurfaceError")
         /\ UNCHANGED <<devices, rs, applied, aborted, hist>>
         /\ UNCHANGED execVars

\* Mutant of ResizeSurface: the surface is configured before the fields are set.
ResizeSurface_ConfigureFirst(width, height) ==
    /\ ~aborted
    /\ rs # NoRenderSurface
    /\ \E s \in {resize_surface(rs, width, height)} :
          \E rejected \in RejectChoices(rs.config) :
            /\ rs' = s
            /\ applied' = IF rejected THEN applied ELSE configure_surface(devices, rs)
            /\ aborted' = rejected
            /\ last' = LastCall("resize_surface", rs.surface, width, height,
                                rs.config.present_mode, NoAnswer, <<>>, rejected,
                                devices, rs, rs.dev_id,
                                IF rejected THEN "panic" ELSE "Ok")
    /\ UNCHANGED <<devices, hist>>
    /\ UNCHANGED execVars

\* RenderContext::resize_surface on the surface the caller holds.
ResizeSurface(width, height) ==
    /\ ~aborted
    /\ rs # NoRenderSurface
    /\ \E s \in {resize_surface(rs, width, height)} :
          \E rejected \in RejectChoices(s.config) :
            /\ rs' = s
            /\ applied' = IF rejected THEN applied ELSE configure_surface(devices, s)
            /\ aborted' = rejected
            /\ last' = LastCall("resize_surface", rs.surface, width, height,
                                rs.config.present_mode, NoAnswer, <<>>, rejected,
                                devices, rs, rs.dev_id,
                                IF rejected THEN "panic" ELSE "Ok")
    /\ UNCHANGED <<devices, hist>>
    /\ UNCHANGED execVars

\* RenderContext::set_present_mode on the surface the caller holds.
SetPresentMode(present_mode) ==
    /\ ~aborted
    /\ rs # NoRenderSurface
    /\ \E s \in {set_present_mode(rs, present_mode)} :
          \E rejected \in RejectChoices(s.config) :
            /\ rs' = s
            /\ applied' = IF rejected THEN applied ELSE configure_surface(devices, s)
            /\ aborted' = rejected
            /\ last' = LastCall("set_present_mode", rs.surface, rs.config.width,
                                rs.config.height, present_mode, NoAnswer, <<>>, rejected,
                                devices, rs, rs.dev_id,
                                IF rejected THEN "panic" ELSE "Ok")
    /\ UNCHANGED <<devices, hist>>
    /\ UNCHANGED execVars

\* The device pool: every surface and device(None), one size and mode, one
\* accepted and one refused capability list.
Next ==
    \/ \E cs \in Surfaces \cup {NoSurface} : Device(cs)
    \/ \E s \in Surfaces, caps \in {<<"Bgra8Unorm">>, <<"Bgra8UnormSrgb">>} :
         CreateRenderSurface(s, MaxDim, MaxDim, "Fifo", caps)
    \/ ResizeSurface(MaxDim, MaxDim)
    \/ SetPresentMode("Fifo")

\* Format negotiation: one surface, one size and mode, every capability list.
FormatNext ==
    \E caps \in CapLists : CreateRenderSurface(1, MaxDim, MaxDim, "Fifo", caps)

\* One render surface from its creation on, under reconfiguration: every size
\* and mode.
SurfaceNext ==
    \/ \E w \in Dims, h \in Dims, m \in PresentModes,
          caps \in {<<"Rgba8Unorm">>, <<"Bgra8UnormSrgb", "Bgra8Unorm", "Rgba8Unorm">>} :
         rs = NoRenderSurface /\ CreateRenderSurface(1, w, h, m, caps)
    \/ \E w \in Dims, h \in Dims : ResizeSurface(w, h)
    \/ \E m \in PresentModes : SetPresentMode(m)

\* Surface creation through both entry points, until a surface is returned:
\* every size and mode, an accepted and a refused capability list.
CreateNext ==
    \/ \E w \in Dims, h \in Dims, m \in PresentModes,
          caps \in {<<"Bgra8UnormSrgb", "Rgba8Unorm">>, <<"Bgra8UnormSrgb">>} :
         rs = NoRenderSurface /\ CreateRenderSurface(1, w, h, m, caps)
    \/ \E created \in BOOLEAN, w \in Dims, h \in Dims, m \in PresentModes,
          caps \in {<<"Bgra8UnormSrgb", "Rgba8Unorm">>, <<"Bgra8UnormSrgb">>} :
         rs = NoRenderSurface /\ CreateSurface(1, created, w, h, m, caps)

\* -------------------------------------------------------- block_on_wgpu

Values == {"a", "b"}
NoValue == "NoValue"

\* A future: `kind` says what its readiness depends on ("gpu": completed work
\* of the device handed to block_on_wgpu; "other": an event that device never
\* reports), `need` how many device-progress signals it still waits for,
\* `signals` how many it needed when it was handed over, `value` its output.
Future(kind, need, value) ==
    [kind |-> kind, need |-> need, signals |-> need, value |-> value]

Futures ==
    {Future("gpu", n, v) : n \in 0 .. MaxSignals, v \in Values}
    \cup {Future("other", 0, v) : v \in Values}

NoFuture == Future("none", 0, NoValue)

\* Future::poll: what the future reports when polled.
Poll(f, ev) ==
    IF f.kind = "gpu"
    THEN (IF f.need = 0 THEN "Ready" ELSE "Pending")
    ELSE (IF ev THEN "Ready" ELSE "Pending")

\* Mutant of Enter: the wasm32 check is missing.
Enter_NoCheck(wasm) == "poll"

\* The cfg!(target_arch = "wasm32") check at the head of block_on_wgpu: where
\* the calling thread goes next.
Enter(wasm) == IF wasm THEN "panicked" ELSE "poll"

\* Mutant of LoopStep: the loop breaks on the first poll, ready or not.
LoopStep_BreakEarly(polled) == "done"

\* Mutant of LoopStep: a pending future is polled again without a device wait.
LoopStep_NoWait(polled) == IF polled = "Pending" THEN "poll" ELSE "done"

\* The match in the loop body: Pending => device.poll(Maintain::Wait),
\* Ready(item) => break item.
LoopStep(polled) == IF polled = "Pending" THEN "wait" ELSE "done"

\* Mutant of NullWake: a wake-up interrupts the device wait and re-polls.
NullWake_Repoll(at) == IF at = "wait" THEN "poll" ELSE at

\* NullWake::wake does nothing: waking leaves the calling thread where it is.
NullWake(at) == at

ExecInit ==
    /\ wasm32 \in BOOLEAN
    /\ pc = "idle"
    /\ fut = NoFuture
    /\ gpuBusy = FALSE
    /\ event = FALSE
    /\ polls = 0
    /\ waits = 0
    /\ pendings = 0
    /\ ret = NoValue

\* block_on_wgpu(device, fut) is called: the wasm32 check, then the waker,
\* the context and the pinned future are set up.
BlockOnWgpu(f) ==
    /\ pc = "idle"
    /\ pc' = Enter(wasm32)
    /\ fut' = f
    /\ gpuBusy' = (f.kind = "gpu" /\ f.need > 0)
    /\ UNCHANGED <<wasm32, event, polls, waits, pendings, ret>>
    /\ UNCHANGED poolVars

\* fut.as_mut().poll(&mut context) and the match on its result.
PollFuture ==
    /\ pc = "poll"
    /\ LET polled == Poll(fut, event)
       IN /\ pc' = LoopStep(polled)
          /\ polls' = IF polls < MaxCount THEN polls + 1 ELSE polls
          /\ pendings' = IF polled = "Pending" /\ pendings < MaxCount
                         THEN pendings + 1 ELSE pendings
          /\ ret' = IF LoopStep(polled) = "done" THEN fut.value ELSE ret
          \* a GPU future that is not ready has work in flight on the device
          /\ gpuBusy' = (fut.kind = "gpu" /\ fut.need > 0)
    /\ UNCHANGED <<wasm32, fut, event, waits>>
    /\ UNCHANGED poolVars

\* device.poll(wgpu::Maintain::Wait): blocks until the submitted work is
\* complete, then runs the completion callbacks, which signal the future.
DeviceWait ==
    /\ pc = "wait"
    /\ ~gpuBusy
    /\ waits' = IF waits < MaxCount THEN waits + 1 ELSE waits
    /\ fut' = IF fut.kind = "gpu" /\ fut.need > 0
              THEN [fut EXCEPT !.need = @ - 1] ELSE fut
    /\ pc' = "poll"
    /\ UNCHANGED <<wasm32, gpuBusy, event, polls, pendings, ret>>
    /\ UNCHANGED poolVars

\* The device completes the work submitted to it.
GpuComplete ==
    /\ gpuBusy
    /\ gpuBusy' = FALSE
    /\ UNCHANGED <<wasm32, pc, fut, event, polls, waits, pendings, ret>>
    /\ UNCHANGED poolVars

\* The event a non-GPU future waits for occurs; the future calls its waker.
FireEvent ==
    /\ fut.kind = "other"
    /\ ~event
    /\ event' = TRUE
    /\ pc' = NullWake(pc)
    /\ UNCHANGED <<wasm32, fut, gpuBusy, polls, waits, pendings, ret>>
    /\ UNCHANGED poolVars

ExecNext ==
    \/ \E f \in Futures : BlockOnWgpu(f)
    \/ PollFuture
    \/ DeviceWait
    \/ GpuComplete
    \/ FireEvent

\* ------------------------------------------------------- specifications

\* A native build; the executor is not running.
Init == PoolInit /\ ExecInit /\ wasm32 = FALSE

\* Either build target; the pool is not used.
InitExec == PoolInit /\ ExecInit

\* The device pool: lookup, reuse and creation of device handles.
Spec == Init /\ [][Next]_vars

\* Format negotiation in create_render_surface.
FormatSpec == Init /\ [][FormatNext]_vars

\* A render surface under resize and present-mode changes.
SurfaceSpec == Init /\ [][SurfaceNext]_vars

\* Surface creation through create_surface and create_render_surface.
CreateSpec == Init /\ [][CreateNext]_vars

\* The blocking executor, on either build target.
ExecSpec == InitExec /\ [][ExecNext]_vars

\* The calling thread keeps running and the device finishes its work.
ExecFairSpec ==
    /\ ExecSpec
    /\ WF_vars(PollFuture)
    /\ WF_vars(DeviceWait)
    /\ WF_vars(GpuComplete)

\* ---------------------------------------------------------------- claims

\* C1: in a run where every call passed the same surface s (starting from the
\* empty pool), the pool never holds more than one device, every resolved
\* device index is 0, and every create_render_surface that returns a surface
\* returns the dev_id the first call returned, with device count 1.
C1_SameSurfaceReusesDevice ==
    \A s \in Surfaces :
        hist.passed = {s} =>
            /\ Len(devices) <= 1
            /\ last.dev # NoneIdx => last.dev = 0
            /\ (last.op = "create_render_surface" /\ last.result = "Ok"
                /\ hist.firstDev # NoneIdx)
               => (rs.dev_id = hist.firstDev /\ Len(devices) = 1)

\* A later call with the same surface found the device of the first call.
C1_Witness ==
    /\ hist.passed = {1}
    /\ last.op = "create_render_surface" /\ last.result = "Ok"
    /\ Len(last.before) = 1 /\ devices = last.before
    /\ hist.firstDev = 0 /\ rs.dev_id = 0

\* C2: the format chosen by create_render_surface is the first entry of the
\* capability list that is Rgba8Unorm or Bgra8Unorm; a list with neither
\* yields UnsupportedSurfaceFormat.
C2_FirstAllowedFormat ==
    (last.op = "create_render_surface" /\ last.dev # NoneIdx) =>
        LET caps == last.caps
            allowed == {i \in 1 .. Len(caps) : caps[i] \in {"Rgba8Unorm", "Bgra8Unorm"}}
        IN IF allowed = {}
           THEN last.result = "UnsupportedSurfaceFormat"
           ELSE LET first == CHOOSE i \in allowed : \A j \in allowed : i <= j
                IN /\ last.result = "Ok"
                   /\ rs.format = caps[first]
                   /\ rs.config.format = caps[first]

\* Both allowed formats are listed after a refused one; the first listed wins.
C2_Witness ==
    /\ last.op = "create_render_surface" /\ last.result = "Ok"
    /\ last.caps = <<"Bgra8UnormSrgb", "Bgra8Unorm", "Rgba8Unorm">>
    /\ rs.format = "Bgra8Unorm"

\* C3: when the pool already holds devices whose adapter supports the given
\* surface, the lookup leaves the devices unchanged and resolves to the first
\* such device in insertion order, which is the dev_id of the returned surface.
C3_FirstSupportingDevice ==
    LET supporting == {i \in 1 .. Len(last.before) :
                         is_surface_supported(last.before[i].adapter, last.surface)}
    IN (/\ last.op \in {"create_render_surface", "device"}
        /\ last.surface # NoSurface
        /\ supporting # {})
       => /\ devices = last.before
          /\ \A i \in supporting : last.dev + 1 <= i
          /\ last.dev + 1 \in supporting
          /\ (last.op = "create_render_surface" /\ last.result = "Ok")
             => rs.dev_id = last.dev

\* The first supporting device is not the first device, and a later one
\* supports the surface too.
C3_Witness ==
    /\ last.op = "create_render_surface" /\ last.result = "Ok"
    /\ devices = last.before
    /\ rs.dev_id = 1
    /\ \E j \in 3 .. Len(devices) : is_surface_supported(devices[j].adapter, last.surface)

\* C4: when the backend yields no adapter or refuses the device request,
\* device() reports None, create_render_surface returns NoCompatibleDevice
\* and the devices sequence is what it was before the call.
C4_FailureAppendsNothing ==
    (/\ last.op \in {"create_render_surface", "device"}
     /\ last.env.asked
     /\ (~last.env.found \/ ~last.env.request_ok))
    => /\ last.dev = NoneIdx
       /\ devices = last.before
       /\ last.op = "create_render_surface" => last.result = "NoCompatibleDevice"
       /\ last.op = "device" => last.result = "None"

\* An adapter was found but the device request failed, on a non-empty pool.
C4_Witness ==
    /\ last.op = "create_render_surface" /\ last.result = "NoCompatibleDevice"
    /\ last.env.found /\ ~last.env.request_ok
    /\ devices # <<>>

\* C5: when no existing device supports the surface and device creation
\* succeeds, exactly one handle is appended and the resolved index is the
\* device count before the call (count 1 and dev_id 0 on the empty pool).
C5_CreationAppendsOne ==
    (/\ last.op \in {"create_render_surface", "device"}
     /\ last.surface # NoSurface
     /\ \A i \in 1 .. Len(last.before) :
            ~is_surface_supported(last.before[i].adapter, last.surface)
     /\ last.env.found /\ last.env.request_ok)
    => /\ Len(devices) = Len(last.before) + 1
       /\ SubSeq(devices, 1, Len(last.before)) = last.before
       /\ devices[Len(devices)].adapter = last.env.adapter
       /\ last.dev = Len(last.before)
       /\ (last.op = "create_render_surface" /\ last.result = "Ok")
          => rs.dev_id = Len(last.before)

\* A device was created for a surface no device of a non-empty pool supported.
C5_Witness ==
    /\ last.op = "create_render_surface" /\ last.result = "Ok"
    /\ last.env.found /\ last.env.request_ok
    /\ Len(last.before) >= 1
    /\ Len(devices) = Len(last.before) + 1
    /\ rs.dev_id = Len(last.before)

\* C6: after resize_surface(s, w, h) the config holds w and h (zero included)
\* and format, dev_id and present mode are what they were.
C6_ResizeSetsSize ==
    last.op = "resize_surface" =>
        /\ rs.config.width = last.width
        /\ rs.config.height = last.height
        /\ rs.format = last.rsBefore.format
        /\ rs.dev_id = last.rsBefore.dev_id
        /\ rs.config.present_mode = last.rsBefore.config.present_mode
        /\ rs.config.format = last.rsBefore.config.format

\* A resize to a width and a height that differ from each other and from the
\* size before.
C6_Witness ==
    /\ last.op = "resize_surface" /\ last.result = "Ok"
    /\ last.width # last.height
    /\ last.width # 0 /\ last.height # 0
    /\ last.rsBefore.config.width # last.width
    /\ rs.config.width = last.width

\* C7: set_present_mode(s, mode) stores mode, whatever it is and whether or
\* not the surface offers it, and leaves width, height, format and dev_id.
C7_PresentModeOnly ==
    last.op = "set_present_mode" =>
        /\ rs.config.present_mode = last.present_mode
        /\ rs.config.width = last.rsBefore.config.width
        /\ rs.config.height = last.rsBefore.config.height
        /\ rs.format = last.rsBefore.format
        /\ rs.config.format = last.rsBefore.config.format
        /\ rs.dev_id = last.rsBefore.dev_id

\* A mode the backend then refused was stored all the same.
C7_Witness ==
    /\ last.op = "set_present_mode" /\ last.rejected
    /\ last.rsBefore.config.present_mode = "Fifo"
    /\ rs.config.present_mode = "Mailbox"

\* C8: block_on_wgpu returns only at a poll that reports Ready, with that
\* poll's value; a future pending on its first k polls is polled exactly k + 1
\* times with exactly k device waits.
C8_ReturnsAtReady ==
    /\ ret # NoValue => pc = "done"
    /\ pc = "done" =>
        /\ Poll(fut, event) = "Ready"
        /\ ret = fut.value
        /\ pendings < MaxCount => polls = pendings + 1
        /\ waits = pendings
        /\ fut.kind = "gpu" => (polls = fut.signals + 1 /\ waits = fut.signals)

\* A future that needed two device-progress signals has returned.
C8_Witness ==
    /\ pc = "done" /\ fut.kind = "gpu" /\ fut.signals = 2
    /\ polls = 3 /\ waits = 2 /\ ret = fut.value

\* C9: for a future that awaits only work of the given device, with the device
\* completing its work: block_on_wgpu eventually returns; the poll that
\* follows the device wait after which nothing is awaited reports Ready and
\* returns; and it has not returned while work is outstanding.
C9_NoMissedNoSpurious ==
    /\ []((fut.kind = "gpu" /\ pc \in {"poll", "wait"}) => <>(pc = "done"))
    /\ []((fut.kind = "gpu" /\ pc = "done") => (fut.need = 0 /\ ~gpuBusy))
    /\ [][(fut.kind = "gpu" /\ pc = "poll" /\ fut.need = 0 /\ pc' # pc)
          => (pc' = "done" /\ ret' = fut.value)]_vars

\* A GPU future that needed every signal the bound allows has returned.
C9_Witness ==
    /\ pc = "done" /\ fut.kind = "gpu"
    /\ fut.signals = MaxSignals /\ waits = MaxSignals /\ ~gpuBusy

\* C10: on a wasm32 build block_on_wgpu panics before any poll of the future
\* and before any device wait; it never enters the loop.
C10_WasmPanicsFirst ==
    wasm32 => /\ pc \in {"idle", "panicked"}
              /\ polls = 0
              /\ waits = 0
              /\ ret = NoValue

\* block_on_wgpu was called on a wasm32 build.
C10_Witness ==
    wasm32 /\ pc = "panicked" /\ fut # NoFuture

\* C11 as stated: whatever surface creation returns to its caller is a
\* RenderSurface, NoCompatibleDevice or UnsupportedSurfaceFormat.
C11_OnlyTwoErrors ==
    (last.op \in {"create_surface", "create_render_surface"} /\ last.result # "panic")
    => last.result \in {"Ok", "NoCompatibleDevice", "UnsupportedSurfaceFormat"}

\* C11, amended: create_render_surface returns a RenderSurface,
\* NoCompatibleDevice or UnsupportedSurfaceFormat, and both errors are
\* returned, never raised as an abort; create_surface returns in addition the
\* backend's surface-creation error, before anything else has happened.
C11_ReturnedErrors ==
    /\ last.op = "create_surface" =>
          /\ last.result = "CreateSurfaceError"
          /\ devices = last.before /\ rs = last.rsBefore /\ ~aborted
    /\ last.op = "create_render_surface" =>
          /\ last.result \in {"Ok", "NoCompatibleDevice", "UnsupportedSurfaceFormat", "panic"}
          /\ last.dev = NoneIdx => (last.result = "NoCompatibleDevice" /\ ~aborted)
          /\ (last.dev # NoneIdx /\ \A i \in 1 .. Len(last.caps) : ~IsAllowed(last.caps[i]))
             => (last.result = "UnsupportedSurfaceFormat" /\ ~aborted)
          /\ last.result = "panic" <=> aborted
          /\ last.result = "panic" => last.rejected

\* Each of the three errors has been returned, one of them by create_surface.
C11_Witness ==
    /\ last.op = "create_surface" /\ last.result = "CreateSurfaceError"
    /\ last.rsBefore = NoRenderSurface /\ ~aborted

\* C12: devices is append-only: every call leaves the sequence it found as a
\* prefix, every handle stays at the index it was created at, and the dev_id
\* of the held surface and the index last resolved stay valid indices, the
\* surface's denoting the device it was configured with.
C12_AppendOnly ==
    /\ Len(last.before) <= Len(devices)
    /\ SubSeq(devices, 1, Len(last.before)) = last.before
    /\ \A i \in 1 .. Len(devices) : devices[i].device = i - 1
    /\ last.dev # NoneIdx => (0 <= last.dev /\ last.dev < Len(devices))
    /\ rs # NoRenderSurface =>
          /\ 0 <= rs.dev_id /\ rs.dev_id < Len(devices)
          /\ devices[rs.dev_id + 1].device = applied.device

\* A device was appended after the held surface was created on device 0.
C12_Witness ==
    /\ rs # NoRenderSurface /\ rs.dev_id = 0
    /\ last.op \in {"device", "create_render_surface"}
    /\ last.env.found /\ last.env.request_ok
    /\ last.rsBefore # NoRenderSurface
    /\ Len(devices) = Len(last.before) + 1
    /\ Len(devices) >= 2

\* C13 as stated: every configuration handed to Surface::configure, on
\* creation, resize and present-mode change, is one the backend accepts.
C13_AlwaysSatisfies ==
    last.op \in {"create_render_surface", "resize_surface", "set_present_mode"}
    => ~last.rejected

\* C13, amended: only the format is checked against the capabilities, at
\* creation, and it is an allowed format at every application; width, height
\* and present mode are handed to the backend as given, and a configuration
\* the backend rejects is a fatal abort that leaves the applied one in place.
C13_FormatOnlyChecked ==
    /\ rs # NoRenderSurface => (IsAllowed(rs.config.format) /\ IsAllowed(rs.format))
    /\ applied # NotApplied => IsAllowed(applied.config.format)
    /\ last.rejected <=> aborted
    /\ last.rejected => last.result = "panic"
    /\ (last.rejected /\ last.op \in {"resize_surface", "set_present_mode"}) =>
          /\ applied.config = last.rsBefore.config
          /\ rs.config.width = last.width /\ rs.config.height = last.height
          /\ rs.config.present_mode = last.present_mode

\* A resize to a zero width was handed to the backend, which rejected it.
C13_Witness ==
    /\ last.op = "resize_surface" /\ last.rejected /\ aborted
    /\ last.width = 0 /\ rs.config.width = 0
    /\ applied.config.width # 0
    /\ applied.config.format = "Bgra8Unorm"

\* C14: after every successful creation, resize and present-mode change the
\* configuration applied to the surface is the stored one, applied with the
\* device at the surface's dev_id; the fields are written before the surface
\* is configured, so the application carries the new values.
C14_AppliedIsStored ==
    /\ (rs # NoRenderSurface /\ ~aborted) =>
          applied = [config |-> rs.config, device |-> devices[rs.dev_id + 1].device]
    /\ last.op = "resize_surface" =>
          (rs.config.width = last.width /\ rs.config.height = last.height)
    /\ last.op = "set_present_mode" => rs.config.present_mode = last.present_mode
    /\ (last.op = "resize_surface" /\ last.result = "Ok") =>
          (applied.config.width = last.width /\ applied.config.height = last.height)
    /\ (last.op = "set_present_mode" /\ last.result = "Ok") =>
          applied.config.present_mode = last.present_mode
    /\ (last.op = "create_render_surface" /\ last.result = "Ok") =>
          /\ applied.config = rs.config
          /\ applied.config.width = last.width /\ applied.config.height = last.height
          /\ applied.config.present_mode = last.present_mode
          /\ applied.device = devices[last.dev + 1].device

\* A resize that changed both dimensions succeeded and was applied.
C14_Witness ==
    /\ last.op = "resize_surface" /\ last.result = "Ok"
    /\ last.rsBefore.config.width = 1 /\ last.rsBefore.config.height = 1
    /\ last.width = 2 /\ last.height = 2
    /\ applied.config = rs.config /\ applied.config.width = 2
    /\ applied.config.present_mode = "Mailbox"

\* C15: block_on_wgpu strictly alternates polls of the future and device
\* waits. The first step is a poll; a poll that reports Pending is followed
\* by exactly one device wait and then another poll; there is no wait before
\* the first poll and none, nor a poll, after the poll that reports Ready; a
\* wake-up through the no-op waker causes no poll and no change of state.
C15_StrictAlternation ==
    /\ [](/\ pc \in {"idle", "panicked"} => (polls = 0 /\ waits = 0)
          /\ pc = "poll" => polls = waits
          /\ pc \in {"wait", "done"} =>
                (polls = waits + 1 \/ (polls = MaxCount /\ waits = MaxCount)))
    /\ [][/\ pc = "idle" => (pc' \in {"poll", "panicked"} /\ polls' = 0 /\ waits' = 0)
          /\ polls' # polls => (pc = "poll" /\ polls' = polls + 1 /\ waits' = waits)
          /\ pc = "poll" =>
                \/ UNCHANGED <<pc, polls, waits>>
                \/ /\ pc' = IF Poll(fut, event) = "Pending" THEN "wait" ELSE "done"
                   /\ (polls' = polls + 1 \/ polls = MaxCount) /\ waits' = waits
          /\ waits' # waits =>
                (pc = "wait" /\ pc' = "poll" /\ waits' = waits + 1 /\ polls' = polls)
          /\ pc = "wait" =>
                \/ UNCHANGED <<pc, polls, waits>>
                \/ /\ pc' = "poll" /\ polls' = polls
                   /\ (waits' = waits + 1 \/ waits = MaxCount)
          /\ pc = "done" => (pc' = "done" /\ polls' = polls /\ waits' = waits)
          /\ event' # event => UNCHANGED <<pc, fut, polls, waits, pendings, ret>>]_vars

\* The awaited event occurred, and the waker was called, during a device wait.
C15_Witness ==
    /\ fut.kind = "other" /\ event /\ pc = "wait"
    /\ polls = 2 /\ waits = 1 /\ pendings = 2

\* C16: block_on_wgpu never returns for a future that was pending on
\* something other than GPU progress, even if that event later occurs.
C16_NeverReturns ==
    (fut.kind = "other" /\ pendings >= 1) => pc # "done"

\* The event occurred after two pending polls, and block_on_wgpu returned.
C16_Witness ==
    /\ fut.kind = "other" /\ event /\ pc = "done"
    /\ pendings = 2 /\ waits = 2 /\ polls = 3 /\ ret = fut.value

\* C17: device(None) on a non-empty pool returns index 0, asks the backend
\* for nothing and appends nothing; on an empty pool it attempts to create a
\* device with no surface constraint and returns 0, the index of the handle
\* it appended, when that succeeds and none, with the pool still empty, when
\* it fails.
C17_NoSurfaceLookup ==
    (last.op = "device" /\ last.surface = NoSurface) =>
        /\ Len(last.before) > 0 =>
              /\ last.dev = 0 /\ last.result = "Some"
              /\ ~last.env.asked
              /\ devices = last.before
        /\ Len(last.before) = 0 =>
              /\ last.env.asked
              /\ (last.env.found /\ last.env.request_ok) =>
                    /\ last.dev = 0 /\ last.result = "Some"
                    /\ devices = <<DeviceHandle(last.env.adapter, 0)>>
              /\ ~(last.env.found /\ last.env.request_ok) =>
                    /\ last.dev = NoneIdx /\ last.result = "None"
                    /\ devices = <<>>

\* device(None) was called on a pool of two handles.
C17_Witness ==
    /\ last.op = "device" /\ last.surface = NoSurface
    /\ Len(last.before) = 2 /\ last.dev = 0 /\ devices = last.before

\* C18: the RenderSurface a successful create_render_surface returns has a
\* configuration with the given width, height and present mode, usage
\* RENDER_ATTACHMENT, a desired maximum frame latency of 2, alpha mode Auto
\* and no view formats; config.format is the format field, and dev_id is the
\* index the call's device lookup resolved.
C18_CreatedConfiguration ==
    (last.op = "create_render_surface" /\ last.result = "Ok") =>
        /\ rs.surface = last.surface
        /\ rs.config.width = last.width
        /\ rs.config.height = last.height
        /\ rs.config.present_mode = last.present_mode
        /\ rs.config.usage = "RENDER_ATTACHMENT"
        /\ rs.config.desired_maximum_frame_latency = 2
        /\ rs.config.alpha_mode = "Auto"
        /\ rs.config.view_formats = <<>>
        /\ rs.config.format = rs.format
        /\ IsAllowed(rs.format)
        /\ \E i \in 1 .. Len(last.caps) : last.caps[i] = rs.format
        /\ rs.dev_id = last.dev
        /\ DOMAIN rs.config = {"usage", "format", "width", "height", "present_mode",
                               "desired_maximum_frame_latency", "alpha_mode",
                               "view_formats"}

\* A 1 x 2 surface in Immediate mode was created from a three-format list.
C18_Witness ==
    /\ last.op = "create_render_surface" /\ last.result = "Ok"
    /\ last.width = 1 /\ last.height = 2 /\ last.present_mode = "Immediate"
    /\ Len(last.caps) = 3 /\ rs.format = "Bgra8Unorm"
    /\ rs.config.width = 1 /\ rs.config.height = 2

\* C19: under every sequence of resize_surface and set_present_mode calls
\* the surface's format and dev_id stay what creation made them, config.format
\* stays equal to format, and usage, frame latency, alpha mode and view
\* formats stay at their creation values; only width, height and present mode
\* change.
C19_OnlySizeAndModeChange ==
    /\ [](rs # NoRenderSurface =>
            /\ rs.config.format = rs.format
            /\ rs.config.usage = "RENDER_ATTACHMENT"
            /\ rs.config.desired_maximum_frame_latency = 2
            /\ rs.config.alpha_mode = "Auto"
            /\ rs.config.view_formats = <<>>)
    /\ [][rs # NoRenderSurface =>
            /\ rs'.format = rs.format
            /\ rs'.dev_id = rs.dev_id
            /\ rs'.surface = rs.surface
            /\ rs'.config.format = rs.config.format
            /\ rs'.config = [rs.config EXCEPT !.width = rs'.config.width,
                                              !.height = rs'.config.height,
                                              !.present_mode = rs'.config.present_mode]]_vars

\* An Rgba8Unorm surface was resized to 2 x 1 and then had its mode changed.
C19_Witness ==
    /\ last.op = "set_present_mode" /\ last.result = "Ok"
    /\ last.rsBefore.config.present_mode = "Mailbox"
    /\ rs.config.present_mode = "Immediate"
    /\ rs.format = "Rgba8Unorm" /\ rs.config.width = 2 /\ rs.config.height = 1

\* C20: when create_render_surface fails with UnsupportedSurfaceFormat the
\* surface has not been configured and no RenderSurface is returned, and a
\* device the call created for it stays in the pool: the pool is what it was
\* before plus at most one handle, never rolled back.
C20_FormatFailureKeepsDevice ==
    (last.op = "create_render_surface" /\ last.result = "UnsupportedSurfaceFormat") =>
        /\ applied = NotApplied /\ rs = last.rsBefore /\ ~aborted /\ ~last.rejected
        /\ last.dev # NoneIdx
        /\ last.env.asked =>
              /\ devices = Append(last.before,
                                  DeviceHandle(last.env.adapter, Len(last.before)))
              /\ last.dev = Len(last.before)
        /\ ~last.env.asked => devices = last.before
        /\ is_surface_supported(devices[last.dev + 1].adapter, last.surface)

\* The failed call created a device, which is still in the pool.
C20_Witness ==
    /\ last.op = "create_render_surface" /\ last.result = "UnsupportedSurfaceFormat"
    /\ last.before = <<>> /\ Len(devices) = 1 /\ applied = NotApplied
    /\ rs = NoRenderSurface

====
